---- MODULE Spec2Model ----
(***************************************************************************)
(* A reloadable library (src/src/reloadable.rs) over the native loader     *)
(* wrapper (src/src/library.rs).                                           *)
(*                                                                         *)
(* ReloadableLibrary keeps the current Inner (a Library plus the pointers  *)
(* resolved from it) in an AtomicArc.  ReloadableSymbol caches an Arc of   *)
(* the Inner it saw last, and get_loaded() hands out a LoadedSymbol that   *)
(* owns an Arc of the Inner its pointer came from.  Dropping the last Arc  *)
(* of an Inner drops its Library, which calls FreeLibrary.                 *)
(*                                                                         *)
(* The native loader (LoadLibraryA / GetProcAddress / FreeLibrary) is the  *)
(* environment: a load either fails or yields a fresh module whose image   *)
(* maps each name to an address or to NULL.  AtomicArc (crate arc_atomic)  *)
(* is taken at its contract: load() returns a counted strong reference     *)
(* atomically, store() swaps atomically and then drops the replaced Arc.   *)
(* Panics unwind (the default profile), so locals are dropped.             *)
(***************************************************************************)
EXTENDS Integers, Sequences, FiniteSets, TLC

\* ------------------------------------------------------------------ bounds
MaxOpens == 3
MaxBase == 2
NumThreads == 2
MaxCursors == 1
MaxGuards == 2

\* A null module handle, an unresolved symbol, an empty slot.
NULL == 0

Names == {"a", "b"}
Mods == 1..MaxOpens
Threads == 1..NumThreads
GuardIds == 1..MaxGuards
\* What one loaded module instance resolves each name to (NULL: not exported):
\* the instance is mapped at some base, and each exported name lies at its own
\* offset from it, so that an address tells both the instance's base and the name.
Offset(n) == IF n = "a" THEN 0 ELSE MaxBase
Images ==
    {[n \in Names |-> IF n \in ex THEN base + Offset(n) ELSE NULL] :
        base \in 1..MaxBase, ex \in SUBSET Names}
\* The symbol lists a handle is constructed with.
SymLists == {<<"a", "b">>, <<"a", "b", "a">>}

VARIABLES
    hpc,       \* the handle: "init", "loaded" (inside new), "live", "failed", "dropped"
    herr,      \* the panic that ended new(), if any
    symbols,   \* ReloadableLibrary.symbols
    current,   \* ReloadableLibrary.inner: the module id of the current Inner
    mods,      \* every native module: state, image, Inner.pointers, Arc strong count, FreeLibrary calls
    opens,     \* successful LoadLibraryA calls so far
    cursors,   \* the ReloadableSymbol values: symbol_index and raw_lib
    guards,    \* the LoadedSymbol values: _lib and symbol (with the index it was read at)
    th,        \* each caller thread: position and locals of the call it is in
    installs,  \* history: the module ids stored into inner, in order
    p4         \* history: the scenario on the first Inner: "none", "pinned" (a guard on it
               \* taken while it is current and no reload runs), "reloaded" (a reload has
               \* returned with such a guard held), "released" (its last guard then dropped)

vars == <<hpc, herr, symbols, current, mods, opens, cursors, guards, th, installs, p4>>

\* The slots that hold the handle's ReloadableSymbols.
CursorIds == DOMAIN cursors

NoErr == [kind |-> "none", name |-> ""]
NoGuard == [lib |-> NULL, addr |-> NULL, idx |-> 0]
NoCursor == [idx |-> 0, cache |-> NULL]
IdleThread == [pc |-> "idle", lib |-> NULL, my |-> NULL, other |-> NULL, old |-> NULL,
               cur |-> 0, err |-> NoErr, stale |-> FALSE, epoch |-> 0]
FreshMod == [state |-> "unopened", image |-> [n \in Names |-> NULL], pointers |-> <<>>,
             strong |-> 0, closes |-> 0]

ReloadPcs == {"r_loaded", "r_built", "r_swapped"}
PinPcs == {"p_mine", "p_both", "p_stored", "p_chosen"}

\* ------------------------------------------------------- native loader, Arc

\* Library::load succeeding: module m is mapped with image img.
LibraryLoad(ms, m, img) == [ms EXCEPT ![m].state = "open", ![m].image = img]

\* Library::get_ptr
GetPtr(ms, m, name) == ms[m].image[name]

\* Drop for Library: FreeLibrary(self.module).  The module is unmapped, so it
\* exports nothing any more, and the Inner that owned it (if any) is freed.
DropLibrary(ms, m) ==
    [ms EXCEPT ![m].state = "closed", ![m].closes = @ + 1,
               ![m].image = [n \in Names |-> NULL], ![m].pointers = <<>>]

\* The indices of syms at which Inner::new finds get_ptr returning None and panics.
MissingUnchecked(ms, m, syms) == {}
Missing(ms, m, syms) == {i \in 1..Len(syms) : GetPtr(ms, m, syms[i]) = NULL}

MinOf(S) == CHOOSE i \in S : \A j \in S : i <= j
MaxOf(S) == CHOOSE i \in S : \A j \in S : i >= j

\* The symbol the panic of Inner::new names: the iterator stops at the first failure.
LastMissingName(ms, m, syms) == syms[MaxOf(Missing(ms, m, syms))]
FirstMissingName(ms, m, syms) == syms[MinOf(Missing(ms, m, syms))]

\* Inner::new collecting the pointers, every symbol found.
ResolvePointersShort(ms, m, syms) == [i \in 1..(Len(syms) - 1) |-> GetPtr(ms, m, syms[i])]
ResolvePointers(ms, m, syms) == [i \in 1..Len(syms) |-> GetPtr(ms, m, syms[i])]

\* Arc::new(Inner::new(lib, symbols)) when every symbol resolves.
ArcNewInner(ms, m, syms) ==
    [ms EXCEPT ![m].pointers = ResolvePointers(ms, m, syms), ![m].strong = 1]

\* Inner::new panicking: unwinding drops the Library it was given.
InnerNewLeak(ms, m) == ms
InnerNewUnwind(ms, m) == DropLibrary(ms, m)

\* Arc::clone, and the counted reference AtomicArc::load returns.
ArcPeek(ms, m) == ms
ArcClone(ms, m) == [ms EXCEPT ![m].strong = @ + 1]

\* Dropping an Arc<Inner>: the last one drops Inner, hence its Library.
ArcDropEager(ms, m) == DropLibrary([ms EXCEPT ![m].strong = @ - 1], m)
ArcDropLeak(ms, m) == [ms EXCEPT ![m].strong = @ - 1]
ArcDrop(ms, m) ==
    IF ms[m].strong = 1
    THEN DropLibrary([ms EXCEPT ![m].strong = 0], m)
    ELSE [ms EXCEPT ![m].strong = @ - 1]

\* --------------------------------------------------------------- helpers

LiveGuards == {g \in GuardIds : guards[g] # NoGuard}
LiveCursors == {c \in CursorIds : cursors[c] # NoCursor}
InPin == {t \in Threads : th[t].pc \in PinPcs}
InReload == {t \in Threads : th[t].pc \in ReloadPcs}
GuardsOn(m) == {g \in GuardIds : guards[g].lib = m}

\* get_symbol's search: the position of the first element equal to name, or 0.
LastIndexOf(syms, name) ==
    IF \E i \in 1..Len(syms) : syms[i] = name
    THEN MaxOf({i \in 1..Len(syms) : syms[i] = name}) ELSE 0
FirstIndexOf(syms, name) ==
    IF \E i \in 1..Len(syms) : syms[i] = name
    THEN MinOf({i \in 1..Len(syms) : syms[i] = name}) ELSE 0

\* ------------------------------------------------------------------- Init

Init ==
    /\ hpc = "init"
    /\ herr = NoErr
    /\ symbols \in SymLists
    /\ current = NULL
    /\ mods = [m \in Mods |-> FreshMod]
    /\ opens = 0
    /\ cursors = [c \in 1..MaxCursors |-> NoCursor]
    /\ guards = [g \in GuardIds |-> NoGuard]
    /\ th = [t \in Threads |-> IdleThread]
    /\ installs = <<>>
    /\ p4 = "none"

\* ------------------------------------------------- ReloadableLibrary::new

\* Library::load(name) in new(): a null module panics, and no handle exists.
NewLoad ==
    /\ hpc = "init"
    /\ \/ /\ hpc' = "failed"
          /\ herr' = [kind |-> "LibraryNotFound", name |-> ""]
          /\ UNCHANGED <<mods, opens>>
       \/ \E img \in Images :
             /\ mods' = LibraryLoad(mods, opens + 1, img)
             /\ opens' = opens + 1
             /\ hpc' = "loaded"
             /\ UNCHANGED herr
    /\ UNCHANGED <<symbols, current, cursors, guards, th, installs, p4>>

\* AtomicArc::new(Arc::new(Inner::new(lib, &symbols))) in new(); the module
\* loaded by NewLoad is module number opens.
NewBuild ==
    /\ hpc = "loaded"
    /\ IF Missing(mods, opens, symbols) = {}
       THEN /\ mods' = ArcNewInner(mods, opens, symbols)
            /\ current' = opens
            /\ installs' = <<opens>>
            /\ hpc' = "live"
            /\ UNCHANGED herr
       ELSE /\ mods' = InnerNewUnwind(mods, opens)
            /\ hpc' = "failed"
            /\ herr' = [kind |-> "SymbolNotFound",
                        name |-> FirstMissingName(mods, opens, symbols)]
            /\ UNCHANGED <<current, installs>>
    /\ UNCHANGED <<symbols, opens, cursors, guards, th, p4>>

\* Dropping the ReloadableLibrary drops inner.  Cursors and calls in progress
\* borrow the handle, so none is left; LoadedSymbols borrow nothing.
DropHandle ==
    /\ hpc = "live"
    /\ LiveCursors = {}
    /\ InPin = {} /\ InReload = {}
    /\ mods' = ArcDrop(mods, current)
    /\ current' = NULL
    /\ hpc' = "dropped"
    /\ UNCHANGED <<herr, symbols, opens, cursors, guards, th, installs, p4>>

\* ---------------------------------------------- ReloadableLibrary::reload

\* Library::load(self.name) in reload().
ReloadLoadTakeFirst(t) ==
    /\ hpc = "live"
    /\ th[t].pc = "idle"
    /\ \/ /\ th' = [th EXCEPT ![t].pc = "panicked",
                              ![t].err = [kind |-> "LibraryNotFound", name |-> ""]]
          /\ current' = NULL
          /\ UNCHANGED <<mods, opens>>
       \/ /\ opens < MaxOpens
          /\ \E img \in Images :
                /\ mods' = LibraryLoad(mods, opens + 1, img)
                /\ opens' = opens + 1
                /\ th' = [th EXCEPT ![t].pc = "r_loaded", ![t].lib = opens + 1,
                                    ![t].err = NoErr]
          /\ UNCHANGED current
    /\ UNCHANGED <<hpc, herr, symbols, cursors, guards, installs, p4>>

ReloadLoad(t) ==
    /\ hpc = "live"
    /\ th[t].pc = "idle"
    /\ \/ /\ th' = [th EXCEPT ![t].pc = "panicked",
                              ![t].err = [kind |-> "LibraryNotFound", name |-> ""]]
          /\ UNCHANGED <<mods, opens>>
       \/ /\ opens < MaxOpens
          /\ \E img \in Images :
                /\ mods' = LibraryLoad(mods, opens + 1, img)
                /\ opens' = opens + 1
                /\ th' = [th EXCEPT ![t].pc = "r_loaded", ![t].lib = opens + 1,
                                    ![t].err = NoErr]
    /\ UNCHANGED <<hpc, herr, symbols, current, cursors, guards, installs, p4>>

\* Arc::new(Inner::new(lib, &*self.symbols)) in reload(): the argument of store.
ReloadBuild(t) ==
    /\ th[t].pc = "r_loaded"
    /\ IF Missing(mods, th[t].lib, symbols) = {}
       THEN /\ mods' = ArcNewInner(mods, th[t].lib, symbols)
            /\ th' = [th EXCEPT ![t].pc = "r_built"]
       ELSE /\ mods' = InnerNewUnwind(mods, th[t].lib)
            /\ th' = [th EXCEPT ![t].pc = "panicked",
                                ![t].err = [kind |-> "SymbolNotFound",
                                            name |-> FirstMissingName(mods, th[t].lib, symbols)]]
    /\ UNCHANGED <<hpc, herr, symbols, current, opens, cursors, guards, installs, p4>>

\* self.inner.store(..), first half: the atomic swap.  Every get_loaded in
\* progress has now overlapped an install.
ReloadSwapCloseOld(t) ==
    /\ th[t].pc = "r_built"
    /\ current' = th[t].lib
    /\ installs' = Append(installs, th[t].lib)
    /\ mods' = DropLibrary(mods, current)
    /\ th' = [u \in Threads |->
                IF u = t THEN [th[t] EXCEPT !.pc = "r_swapped", !.old = current, !.lib = NULL]
                ELSE IF u \in InPin THEN [th[u] EXCEPT !.stale = TRUE]
                ELSE th[u]]
    /\ UNCHANGED <<hpc, herr, symbols, opens, cursors, guards, p4>>

ReloadSwap(t) ==
    /\ th[t].pc = "r_built"
    /\ current' = th[t].lib
    /\ installs' = Append(installs, th[t].lib)
    /\ th' = [u \in Threads |->
                IF u = t THEN [th[t] EXCEPT !.pc = "r_swapped", !.old = current, !.lib = NULL]
                ELSE IF u \in InPin THEN [th[u] EXCEPT !.stale = TRUE]
                ELSE th[u]]
    /\ UNCHANGED <<hpc, herr, symbols, mods, opens, cursors, guards, p4>>

\* self.inner.store(..), second half: the replaced Arc is dropped; reload returns.
ReloadDropOldFailIfSuperseded(t) ==
    /\ th[t].pc = "r_swapped"
    /\ mods' = ArcDrop(mods, th[t].old)
    /\ th' = IF \E i \in 1..(Len(installs) - 2) : installs[i] = th[t].old
             THEN [th EXCEPT ![t].pc = "panicked", ![t].old = NULL,
                             ![t].err = [kind |-> "Superseded", name |-> ""]]
             ELSE [th EXCEPT ![t].pc = "idle", ![t].old = NULL]
    /\ p4' = IF p4 = "pinned" /\ GuardsOn(installs[1]) # {} THEN "reloaded" ELSE p4
    /\ UNCHANGED <<hpc, herr, symbols, current, opens, cursors, guards, installs>>

ReloadDropOldForget(t) ==
    /\ th[t].pc = "r_swapped"
    /\ th' = [th EXCEPT ![t].pc = "idle", ![t].old = NULL]
    /\ p4' = IF p4 = "pinned" /\ GuardsOn(installs[1]) # {} THEN "reloaded" ELSE p4
    /\ UNCHANGED <<hpc, herr, symbols, current, mods, opens, cursors, guards, installs>>

ReloadDropOld(t) ==
    /\ th[t].pc = "r_swapped"
    /\ mods' = ArcDrop(mods, th[t].old)
    /\ th' = [th EXCEPT ![t].pc = "idle", ![t].old = NULL]
    /\ p4' = IF p4 = "pinned" /\ GuardsOn(installs[1]) # {} THEN "reloaded" ELSE p4
    /\ UNCHANGED <<hpc, herr, symbols, current, opens, cursors, guards, installs>>

\* ------------------------------------------ ReloadableLibrary::get_symbol

LookupNames == Names \cup {"zz"}

GetSymbolBorrow(name) ==
    /\ hpc = "live"
    /\ \E c \in CursorIds :
          /\ cursors[c] = NoCursor
          /\ \A d \in CursorIds : d < c => cursors[d] # NoCursor
          /\ IF FirstIndexOf(symbols, name) = 0
             THEN UNCHANGED <<cursors, mods>>
             ELSE /\ cursors' = [cursors EXCEPT
                                   ![c] = [idx |-> FirstIndexOf(symbols, name), cache |-> current]]
                  /\ mods' = ArcPeek(mods, current)
    /\ UNCHANGED <<hpc, herr, symbols, current, opens, guards, th, installs, p4>>

\* get_symbol(symbol): None when the name is not in the list; else a cursor at
\* its index whose raw_lib is a fresh AtomicArc of self.inner.load().
GetSymbol(name) ==
    /\ hpc = "live"
    /\ \E c \in CursorIds :
          /\ cursors[c] = NoCursor
          /\ \A d \in CursorIds : d < c => cursors[d] # NoCursor
          /\ IF FirstIndexOf(symbols, name) = 0
             THEN UNCHANGED <<cursors, mods>>
             ELSE /\ cursors' = [cursors EXCEPT
                                   ![c] = [idx |-> FirstIndexOf(symbols, name), cache |-> current]]
                  /\ mods' = ArcClone(mods, current)
    /\ UNCHANGED <<hpc, herr, symbols, current, opens, guards, th, installs, p4>>

\* Dropping a ReloadableSymbol drops raw_lib; no get_loaded borrows it.
DropCursor(c) ==
    /\ cursors[c] # NoCursor
    /\ \A t \in InPin : th[t].cur # c
    /\ mods' = ArcDrop(mods, cursors[c].cache)
    /\ cursors' = [cursors EXCEPT ![c] = NoCursor]
    /\ UNCHANGED <<hpc, herr, symbols, current, opens, guards, th, installs, p4>>

\* ------------------------------------------- ReloadableSymbol::get_loaded

\* let my_lib = self.raw_lib.load();
PinLoadMine(t, c) ==
    /\ hpc = "live"
    /\ th[t].pc = "idle"
    /\ cursors[c] # NoCursor
    /\ Cardinality(LiveGuards) + Cardinality(InPin) < MaxGuards
    /\ mods' = ArcClone(mods, cursors[c].cache)
    /\ th' = [th EXCEPT ![t].pc = "p_mine", ![t].cur = c, ![t].my = cursors[c].cache,
                        ![t].stale = FALSE, ![t].err = NoErr,
                        ![t].epoch = Len(installs)]
    /\ UNCHANGED <<hpc, herr, symbols, current, opens, cursors, guards, installs, p4>>

\* let other_lib = self.reloadable_lib.inner.load();
PinLoadCurrentWaits(t) ==
    /\ th[t].pc = "p_mine"
    /\ InReload = {}
    /\ mods' = ArcClone(mods, current)
    /\ th' = [th EXCEPT ![t].pc = "p_both", ![t].other = current]
    /\ UNCHANGED <<hpc, herr, symbols, current, opens, cursors, guards, installs, p4>>

PinLoadCurrent(t) ==
    /\ th[t].pc = "p_mine"
    /\ mods' = ArcClone(mods, current)
    /\ th' = [th EXCEPT ![t].pc = "p_both", ![t].other = current]
    /\ UNCHANGED <<hpc, herr, symbols, current, opens, cursors, guards, installs, p4>>

\* if !Arc::ptr_eq(&my_lib, &other_lib) { self.raw_lib.store(Arc::clone(&other_lib)); other_lib }
\* else { my_lib }: the swap half of the store on the cursor's cache.
PinCompareTrustCache(t) ==
    /\ th[t].pc = "p_both"
    /\ th' = [th EXCEPT ![t].pc = "p_chosen", ![t].lib = th[t].my]
    /\ UNCHANGED <<mods, cursors>>
    /\ UNCHANGED <<hpc, herr, symbols, current, opens, guards, installs, p4>>

PinCompareNoStore(t) ==
    /\ th[t].pc = "p_both"
    /\ IF th[t].my # th[t].other
       THEN /\ th' = [th EXCEPT ![t].pc = "p_chosen", ![t].lib = th[t].other]
            /\ UNCHANGED <<mods, cursors>>
       ELSE /\ th' = [th EXCEPT ![t].pc = "p_chosen", ![t].lib = th[t].my]
            /\ UNCHANGED <<mods, cursors>>
    /\ UNCHANGED <<hpc, herr, symbols, current, opens, guards, installs, p4>>

PinCompareKeepMine(t) ==
    /\ th[t].pc = "p_both"
    /\ IF th[t].my # th[t].other
       THEN /\ mods' = ArcClone(mods, th[t].other)
            /\ cursors' = [cursors EXCEPT ![th[t].cur].cache = th[t].other]
            /\ th' = [th EXCEPT ![t].pc = "p_stored", ![t].lib = th[t].my,
                                ![t].old = cursors[th[t].cur].cache]
       ELSE /\ th' = [th EXCEPT ![t].pc = "p_chosen", ![t].lib = th[t].my]
            /\ UNCHANGED <<mods, cursors>>
    /\ UNCHANGED <<hpc, herr, symbols, current, opens, guards, installs, p4>>

PinCompare(t) ==
    /\ th[t].pc = "p_both"
    /\ IF th[t].my # th[t].other
       THEN /\ mods' = ArcClone(mods, th[t].other)
            /\ cursors' = [cursors EXCEPT ![th[t].cur].cache = th[t].other]
            /\ th' = [th EXCEPT ![t].pc = "p_stored", ![t].lib = th[t].other,
                                ![t].old = cursors[th[t].cur].cache]
       ELSE /\ th' = [th EXCEPT ![t].pc = "p_chosen", ![t].lib = th[t].my]
            /\ UNCHANGED <<mods, cursors>>
    /\ UNCHANGED <<hpc, herr, symbols, current, opens, guards, installs, p4>>

\* The drop half of self.raw_lib.store(..): the replaced cache Arc is dropped.
PinDropOldCache(t) ==
    /\ th[t].pc = "p_stored"
    /\ mods' = ArcDrop(mods, th[t].old)
    /\ th' = [th EXCEPT ![t].pc = "p_chosen", ![t].old = NULL]
    /\ UNCHANGED <<hpc, herr, symbols, current, opens, cursors, guards, installs, p4>>

\* The local that was not moved into lib: my_lib when the Arcs differed, else other_lib.
Leftover(t) == IF th[t].my # th[t].other THEN th[t].my ELSE th[t].other

\* The LoadedSymbol get_loaded returns: lib and lib.pointers[self.symbol_index].
GuardFromCache(t) ==
    [lib |-> th[t].lib, idx |-> cursors[th[t].cur].idx,
     addr |-> mods[th[t].my].pointers[cursors[th[t].cur].idx]]
GuardOf(t) ==
    [lib |-> th[t].lib, idx |-> cursors[th[t].cur].idx,
     addr |-> mods[th[t].lib].pointers[cursors[th[t].cur].idx]]

\* RawSymbol::from_ptr(lib.pointers[self.symbol_index]); LoadedSymbol::new(lib, raw_symbol);
\* the function returns and drops the leftover local.  An index past the end panics,
\* and unwinding drops lib as well.
PinFinish(t) ==
    /\ th[t].pc = "p_chosen"
    /\ IF cursors[th[t].cur].idx > Len(mods[th[t].lib].pointers)
       THEN /\ mods' = ArcDrop(ArcDrop(mods, th[t].lib), Leftover(t))
            /\ th' = [th EXCEPT ![t] = [IdleThread EXCEPT
                                          !.pc = "panicked",
                                          !.err = [kind |-> "IndexOutOfBounds", name |-> ""]]]
            /\ UNCHANGED <<guards, p4>>
       ELSE \E g \in GuardIds :
               /\ guards[g] = NoGuard
               /\ \A h \in GuardIds : h < g => guards[h] # NoGuard
               /\ guards' = [guards EXCEPT ![g] = GuardOf(t)]
               /\ mods' = ArcDrop(mods, Leftover(t))
               /\ th' = [th EXCEPT ![t] = IdleThread]
               /\ p4' = IF /\ p4 = "none" /\ InReload = {}
                           /\ th[t].lib = installs[1] /\ current = installs[1]
                        THEN "pinned" ELSE p4
    /\ UNCHANGED <<hpc, herr, symbols, current, opens, cursors, installs>>

\* ------------------------------------------------------- LoadedSymbol drop

\* Dropping a LoadedSymbol drops its _lib.
DropGuard(g) ==
    /\ guards[g] # NoGuard
    /\ mods' = ArcDrop(mods, guards[g].lib)
    /\ guards' = [guards EXCEPT ![g] = NoGuard]
    /\ p4' = IF installs # <<>> /\ GuardsOn(installs[1]) = {g}
             THEN (IF p4 = "pinned" THEN "none"
                   ELSE IF p4 = "reloaded" THEN "released" ELSE p4)
             ELSE p4
    /\ UNCHANGED <<hpc, herr, symbols, current, opens, cursors, th, installs>>

\* ------------------------------------------------------------ specification

Next ==
    \/ NewLoad
    \/ NewBuild
    \/ DropHandle
    \/ \E t \in Threads : ReloadLoad(t)
    \/ \E t \in Threads : ReloadBuild(t)
    \/ \E t \in Threads : ReloadSwap(t)
    \/ \E t \in Threads : ReloadDropOld(t)
    \/ \E n \in LookupNames : GetSymbol(n)
    \/ \E c \in CursorIds : DropCursor(c)
    \/ \E t \in Threads, c \in CursorIds : PinLoadMine(t, c)
    \/ \E t \in Threads : PinLoadCurrent(t)
    \/ \E t \in Threads : PinCompare(t)
    \/ \E t \in Threads : PinDropOldCache(t)
    \/ \E t \in Threads : PinFinish(t)
    \/ \E g \in GuardIds : DropGuard(g)

Spec == Init /\ [][Next]_vars

\* ------------------------------------------------------------ properties

RECURSIVE SumOver(_, _)
SumOver(f, S) == IF S = {} THEN 0
                 ELSE LET x == CHOOSE y \in S : TRUE IN f[x] + SumOver(f, S \ {x})

\* FreeLibrary calls so far, over all modules.
TotalCloses == SumOver([m \in Mods |-> mods[m].closes], Mods)

\* The Arc<Inner> values thread t holds on module m in its locals.
ThreadRefs(t, m) ==
    LET r == th[t] IN
    (IF r.pc \in PinPcs /\ r.my = m THEN 1 ELSE 0)
    + (IF r.pc \in {"p_both", "p_stored", "p_chosen"} /\ r.other = m THEN 1 ELSE 0)
    + (IF r.pc \in {"p_stored", "r_swapped"} /\ r.old = m THEN 1 ELSE 0)
    + (IF r.pc = "r_built" /\ r.lib = m THEN 1 ELSE 0)

\* Every strong reference to module m's Inner: the handle's slot, cursor caches,
\* guards, and the locals of calls in progress.
Refs(m) ==
    (IF current = m THEN 1 ELSE 0)
    + Cardinality({c \in CursorIds : cursors[c].cache = m})
    + Cardinality({g \in GuardIds : guards[g].lib = m})
    + SumOver([t \in Threads |-> ThreadRefs(t, m)], Threads)

\* The address get_loaded on cursor c exposes when nothing is installed meanwhile.
PinAddr(c) == mods[current].pointers[cursors[c].idx]

\* C1: no use-after-close. In every reachable state, whatever get_loaded calls,
\* guard drops, cursor drops and reloads have interleaved, every live LoadedSymbol
\* refers to an Inner whose module has been loaded and has never been freed.
C1_NoUseAfterClose ==
    \A g \in GuardIds :
        guards[g] # NoGuard =>
            /\ mods[guards[g].lib].state = "open"
            /\ mods[guards[g].lib].closes = 0

\* A guard is the only thing that still keeps a replaced Inner's module loaded.
C1_Witness ==
    \E g \in GuardIds :
        /\ guards[g] # NoGuard
        /\ hpc = "live"
        /\ guards[g].lib # current
        /\ mods[guards[g].lib].strong = 1
        /\ mods[guards[g].lib].state = "open"

\* C2: no leak, no double free. No module is ever freed more than once, and once
\* the handle is gone (dropped, or never built) with every guard, every cursor and
\* every call finished, the loads equal the FreeLibrary calls.
C2_NoLeakNoDoubleFree ==
    /\ \A m \in Mods : mods[m].closes <= 1
    /\ (/\ hpc \in {"dropped", "failed"}
        /\ LiveGuards = {} /\ LiveCursors = {} /\ InPin = {} /\ InReload = {})
       => opens = TotalCloses

\* Two reloads and a guard have come and gone, the handle is dropped, all is freed.
C2_Witness ==
    /\ hpc = "dropped"
    /\ LiveGuards = {}
    /\ opens = MaxOpens
    /\ Len(installs) = MaxOpens
    /\ p4 = "released"
    /\ TotalCloses = MaxOpens

\* The first Inner of the handle, installed by new().
FirstInner == installs[1]

\* Nothing but cursor caches can still refer to the first Inner: no guard on it
\* is left, and no call is in progress.
C3_GuardGone == p4 = "released" /\ GuardsOn(FirstInner) = {} /\ InPin = {} /\ InReload = {}

\* C3 as stated: after a guard is taken through a cursor on a fresh handle, a
\* reload succeeds and the guard is dropped, the old module has been freed exactly
\* once, and never while the guard was held.
C3_P4AsStated ==
    /\ p4 \in {"pinned", "reloaded"} => mods[FirstInner].closes = 0
    /\ C3_GuardGone => mods[FirstInner].closes = 1

\* C3 amended: the old module is never freed while the guard is held; after the
\* guard drop it has been freed exactly once if no cursor caches the old Inner any
\* more, and not freed at all while a cursor (the one the guard came from, until
\* its next get_loaded or its drop) still caches it.
C3_P4Amended ==
    /\ p4 \in {"pinned", "reloaded"} => mods[FirstInner].closes = 0
    /\ C3_GuardGone =>
          mods[FirstInner].closes =
              IF \E c \in CursorIds : cursors[c].cache = FirstInner THEN 0 ELSE 1

\* The scenario has run, the cursor has been pinned again, and the old module is freed.
C3_Witness ==
    /\ C3_GuardGone
    /\ hpc = "live"
    /\ LiveCursors # {}
    /\ mods[FirstInner].closes = 1
    /\ mods[FirstInner].state = "closed"

\* A step of reload by thread t up to and including its failure, before any store.
ReloadStepBeforeStore(t) ==
    /\ th[t].pc \in {"idle", "r_loaded"}
    /\ th'[t].pc \in {"r_loaded", "r_built", "panicked"}
    /\ th'[t] # th[t]

\* C4: reload isolation. Every step of a reload before its store, the failing
\* step (load failed, or a symbol not found) included, leaves the handle's current
\* Inner, its module and pointers, every cursor and every guard as they were, so
\* get_loaded on every cursor exposes the address it exposed before.
C4_FailedReloadIsolated ==
    [][\A t \in Threads :
          ReloadStepBeforeStore(t) =>
             /\ current' = current
             /\ current # NULL
             /\ mods'[current] = mods[current]
             /\ mods'[current].state = "open"
             /\ cursors' = cursors
             /\ guards' = guards
             /\ \A c \in CursorIds : cursors[c] # NoCursor => PinAddr(c)' = PinAddr(c)]_vars

\* A reload has failed on a missing symbol while a cursor and a guard are in use.
C4_Witness ==
    /\ hpc = "live"
    /\ \E t \in Threads : th[t].pc = "panicked" /\ th[t].err.kind = "SymbolNotFound"
    /\ \E c \in CursorIds : cursors[c] # NoCursor /\ cursors[c].cache = current
    /\ \E g \in GuardIds : guards[g] # NoGuard /\ guards[g].lib = current
    /\ mods[current].state = "open"

\* C5: visibility. A get_loaded that no install has overlapped (so it started
\* after the last successful reload's store) returns a guard on the current Inner
\* exposing the current Inner's pointer at the cursor's index, also when the
\* cursor's cache held an older Inner when the call started.
C5_Visibility ==
    [][\A t \in Threads :
          (th[t].pc = "p_chosen" /\ th'[t].pc = "idle" /\ ~th[t].stale) =>
             \E g \in GuardIds :
                /\ guards[g] = NoGuard
                /\ guards'[g] # NoGuard
                /\ guards'[g].lib = current
                /\ guards'[g].addr = mods[current].pointers[cursors[th[t].cur].idx]
                /\ guards'[g].addr = GetPtr(mods, current, symbols[cursors[th[t].cur].idx])]_vars

\* After a reload, a guard on the new Inner exposes an address that differs from
\* the one the first Inner (still loaded) has at the same index.
C5_Witness ==
    \E g \in GuardIds :
        /\ guards[g] # NoGuard
        /\ Len(installs) >= 2
        /\ guards[g].lib = current
        /\ current # FirstInner
        /\ mods[FirstInner].state = "open"
        /\ guards[g].addr # mods[FirstInner].pointers[guards[g].idx]

\* C6: while the handle lives, also in the middle of any reload, its current
\* reference is not null and refers to a fully built Inner: the module is loaded,
\* and pointers holds one resolved, non-null address per name of symbols, in order.
C6_CurrentFullyBuilt ==
    hpc = "live" =>
        /\ current # NULL
        /\ mods[current].state = "open"
        /\ mods[current].closes = 0
        /\ Len(mods[current].pointers) = Len(symbols)
        /\ \A i \in 1..Len(symbols) :
              /\ mods[current].pointers[i] # NULL
              /\ mods[current].pointers[i] = GetPtr(mods, current, symbols[i])

\* A second Inner is current while a reload holds a loaded module that lacks a symbol.
C6_Witness ==
    /\ hpc = "live"
    /\ Len(installs) = 2
    /\ \E t \in Threads :
          /\ th[t].pc = "r_loaded"
          /\ \E i \in 1..Len(symbols) : GetPtr(mods, th[t].lib, symbols[i]) = NULL

\* The module Inner::new is building: new()'s, or the one thread t's reload loaded.
NewIsBuilding == hpc = "loaded"
ReloadIsBuilding(t) == th[t].pc = "r_loaded"
Unresolved(m) == \E i \in 1..Len(symbols) : mods[m].image[symbols[i]] = NULL

\* C7: atomic construction. Whenever Inner::new (in new and in reload) runs on a
\* module in which some name of the list does not resolve, no Inner is produced:
\* nothing is installed, the module gets no reference, and it is freed, exactly once.
C7_AtomicConstruction ==
    [][/\ (NewIsBuilding /\ Unresolved(opens) /\ hpc' # hpc) =>
             /\ hpc' = "failed"
             /\ current' = NULL /\ installs' = <<>>
             /\ mods'[opens].state = "closed"
             /\ mods'[opens].closes = 1
             /\ mods'[opens].strong = 0
       /\ \A t \in Threads :
             (ReloadIsBuilding(t) /\ Unresolved(th[t].lib) /\ th'[t] # th[t]) =>
                /\ th'[t].pc = "panicked"
                /\ current' = current /\ installs' = installs
                /\ mods'[th[t].lib].state = "closed"
                /\ mods'[th[t].lib].closes = 1
                /\ mods'[th[t].lib].strong = 0
       /\ \A t \in Threads :
             (th'[t].pc = "panicked" /\ th'[t].err.kind = "SymbolNotFound") =>
                /\ mods'[th'[t].lib].closes = 1
                /\ mods'[th'[t].lib].state = "closed"
                /\ th'[t].lib # current']_vars

\* A reload's module lacked a symbol: the thread panicked and the module is freed once.
C7_Witness ==
    \E t \in Threads :
        /\ th[t].pc = "panicked"
        /\ th[t].err.kind = "SymbolNotFound"
        /\ mods[th[t].lib].state = "closed"
        /\ mods[th[t].lib].closes = 1
        /\ hpc = "live"

\* The name n is the first of the list, in order, that module m does not resolve.
IsFirstUnresolved(m, n) ==
    \E i \in 1..Len(symbols) :
        /\ symbols[i] = n
        /\ mods[m].image[n] = NULL
        /\ \A j \in 1..(i - 1) : mods[m].image[symbols[j]] # NULL

LoadErrorKinds == {"LibraryNotFound", "SymbolNotFound"}

\* C8 as stated: a failure of new() or reload() comes back to the caller as an
\* error value, so the call has returned and a caller whose reload failed keeps
\* running on the handle.
C8_ErrorValueReturned ==
    /\ \A t \in Threads : th[t].err.kind \in LoadErrorKinds => th[t].pc # "panicked"
    /\ herr.kind \in LoadErrorKinds => hpc = "failed"

\* C8 amended: a failure of new() or reload() is a panic of the calling thread,
\* never a returned value and never swallowed. A failed load panics naming the
\* library; a module lacking a symbol always panics, naming the first name of the
\* list, in order, that did not resolve. The panicking call does not return; the
\* handle stays live with its current Inner for every other user.
C8_FailurePanics ==
    [][/\ \A t \in Threads :
             /\ (ReloadIsBuilding(t) /\ Unresolved(th[t].lib) /\ th'[t] # th[t]) =>
                   /\ th'[t].pc = "panicked"
                   /\ th'[t].err.kind = "SymbolNotFound"
                   /\ IsFirstUnresolved(th[t].lib, th'[t].err.name)
             /\ (ReloadIsBuilding(t) /\ ~Unresolved(th[t].lib) /\ th'[t] # th[t]) =>
                   th'[t].pc = "r_built" /\ th'[t].err = NoErr
             /\ (th[t].pc = "idle" /\ th'[t].pc = "panicked") =>
                   th'[t].err = [kind |-> "LibraryNotFound", name |-> ""]
             /\ th'[t].err.kind \in LoadErrorKinds <=> th'[t].pc = "panicked"
             /\ th[t].pc = "panicked" => th'[t] = th[t]
             /\ (th[t].pc # "panicked" /\ th'[t].pc = "panicked") =>
                   hpc' = "live" /\ current' = current /\ mods'[current].state = "open"
       /\ (NewIsBuilding /\ hpc' # hpc) =>
             IF Unresolved(opens)
             THEN /\ hpc' = "failed"
                  /\ herr'.kind = "SymbolNotFound"
                  /\ IsFirstUnresolved(opens, herr'.name)
             ELSE hpc' = "live" /\ herr' = NoErr
       /\ (hpc = "init" /\ hpc' = "failed") => herr' = [kind |-> "LibraryNotFound", name |-> ""]]_vars

\* A reload whose module lacks both names has panicked naming "a", the first of
\* the list, while the other thread goes on to pin the still-current Inner.
C8_Witness ==
    \E t, u \in Threads :
        /\ th[t].pc = "panicked"
        /\ th[t].err = [kind |-> "SymbolNotFound", name |-> "a"]
        /\ hpc = "live"
        /\ th[u].pc = "p_chosen"
        /\ th[u].lib = current

\* C9: concurrent reloads. The handle's current Inner is always the one stored by
\* the last install, in particular once every reload has returned; and every Inner
\* installed earlier and since replaced has had its module freed exactly once if
\* nothing refers to it any more, and not at all while something does.
C9_LastInstallWins ==
    hpc = "live" =>
        /\ current = installs[Len(installs)]
        /\ \A i \in 1..(Len(installs) - 1) :
              /\ installs[i] # current
              /\ mods[installs[i]].closes = (IF Refs(installs[i]) = 0 THEN 1 ELSE 0)
              /\ mods[installs[i]].state = (IF Refs(installs[i]) = 0 THEN "closed" ELSE "open")

\* Two reloads have installed and returned; both replaced modules are freed.
C9_Witness ==
    /\ hpc = "live"
    /\ InReload = {}
    /\ Len(installs) = 3
    /\ current = installs[3]
    /\ mods[installs[1]].closes = 1
    /\ mods[installs[2]].closes = 1
    /\ mods[current].state = "open"

\* C10: a guard's address is fixed. At every step, each live LoadedSymbol holds the
\* pointer its Inner has at the index it was read at, a guard that stays alive is
\* not changed by the step (reload, failed reload, get_loaded, drops), and a new
\* guard reads the pointer at its cursor's index in the Inner it pins.
C10_GuardAddressFixed ==
    [][/\ \A g \in GuardIds :
             /\ (guards[g] # NoGuard /\ guards'[g] # NoGuard) => guards'[g] = guards[g]
             /\ guards'[g] # NoGuard =>
                   /\ mods'[guards'[g].lib].state = "open"
                   /\ guards'[g].addr = mods'[guards'[g].lib].pointers[guards'[g].idx]
                   /\ guards'[g].addr = mods'[guards'[g].lib].image[symbols[guards'[g].idx]]
       /\ \A t \in Threads :
             (th[t].pc = "p_chosen" /\ th'[t].pc = "idle") =>
                \E g \in GuardIds :
                   /\ guards[g] = NoGuard /\ guards'[g] # NoGuard
                   /\ guards'[g].lib = th[t].lib
                   /\ guards'[g].idx = cursors[th[t].cur].idx]_vars

\* A guard taken before a reload still exposes the old address while a guard from
\* a fresh get_loaded on the same index exposes the new, different one.
C10_Witness ==
    \E g, h \in GuardIds :
        /\ guards[g] # NoGuard /\ guards[h] # NoGuard
        /\ guards[g].lib = FirstInner /\ guards[g].lib # current
        /\ guards[h].lib = current
        /\ guards[g].idx = guards[h].idx
        /\ guards[g].addr # guards[h].addr
        /\ \E c \in CursorIds : cursors[c].cache = current /\ cursors[c].idx = guards[g].idx

\* The step thread t takes next inside get_loaded, and inside reload after its load.
PinStep(t) == PinLoadCurrent(t) \/ PinCompare(t) \/ PinDropOldCache(t) \/ PinFinish(t)
ReloadStep(t) == ReloadBuild(t) \/ ReloadSwap(t) \/ ReloadDropOld(t)

\* How far a call has come; a call that has returned or panicked is past every position.
PinRank(pc) ==
    IF pc = "p_mine" THEN 1 ELSE IF pc = "p_both" THEN 2 ELSE IF pc = "p_stored" THEN 3
    ELSE IF pc = "p_chosen" THEN 4 ELSE 5
ReloadRank(pc) ==
    IF pc = "r_loaded" THEN 1 ELSE IF pc = "r_built" THEN 2 ELSE IF pc = "r_swapped" THEN 3
    ELSE 4

\* C11: non-blocking progress. In every reachable state, wherever the other
\* threads stand (a reload stalled after its load or inside its store included)
\* and whatever guards are held, a get_loaded in progress can take its next step,
\* and the step moves it strictly forward through its at most four positions; the
\* same holds for a reload in progress, whose store installs its own Inner.
C11_NonBlocking ==
    \A t \in Threads :
        /\ th[t].pc \in PinPcs =>
              ENABLED (PinStep(t) /\ PinRank(th'[t].pc) > PinRank(th[t].pc))
        /\ th[t].pc \in PinPcs =>
              ~ENABLED (PinStep(t) /\ PinRank(th'[t].pc) <= PinRank(th[t].pc))
        /\ th[t].pc \in ReloadPcs =>
              ENABLED (ReloadStep(t) /\ ReloadRank(th'[t].pc) > ReloadRank(th[t].pc))
        /\ th[t].pc \in ReloadPcs =>
              ~ENABLED (ReloadStep(t) /\ ReloadRank(th'[t].pc) <= ReloadRank(th[t].pc))
        /\ th[t].pc = "r_built" =>
              ENABLED (ReloadSwap(t) /\ current' = th[t].lib)

\* A get_loaded is under way while a reload is stalled after its load, and a
\* reload is about to store while a guard on the current Inner is held.
C11_Witness ==
    /\ \E t, u \in Threads : th[t].pc = "p_mine" /\ th[u].pc = "r_loaded"
    /\ GuardsOn(current) # {}

\* ------------------------------------------------- get_symbol on any list

\* Longest symbol list handed to new() when get_symbol is examined by itself.
MaxListLen == 4

\* Every list of names up to that length, repeated names and the empty list included.
AllLists == UNION {[1..k -> Names] : k \in 0..MaxListLen}

\* The state before new(), with any such list as its symbols argument.
InitLookup ==
    /\ hpc = "init"
    /\ herr = NoErr
    /\ symbols \in AllLists
    /\ current = NULL
    /\ mods = [m \in Mods |-> FreshMod]
    /\ opens = 0
    /\ cursors = [c \in 1..MaxCursors |-> NoCursor]
    /\ guards = [g \in GuardIds |-> NoGuard]
    /\ th = [t \in Threads |-> IdleThread]
    /\ installs = <<>>
    /\ p4 = "none"

\* new() followed by get_symbol calls and drops of the cursors they return.
NextLookup ==
    \/ NewLoad
    \/ NewBuild
    \/ \E name \in LookupNames : GetSymbol(name)
    \/ \E c \in CursorIds : DropCursor(c)

SpecLookup == InitLookup /\ [][NextLookup]_vars

\* The smallest position of name in syms, stated without the search.
Occurs(syms, name) == \E i \in 1..Len(syms) : syms[i] = name
LeastPosition(syms, name) ==
    CHOOSE i \in 1..Len(syms) : syms[i] = name /\ \A j \in 1..(i - 1) : syms[j] # name

\* A get_symbol call can be made: the handle is live and a cursor slot is free.
CanLookup == hpc = "live" /\ \E c \in CursorIds : cursors[c] = NoCursor

\* C12: first match.  For every symbol list and every name, whenever get_symbol
\* can be called: if the name occurs in the list the call returns a cursor whose
\* index is the smallest position of the name and can return no other cursor;
\* if the name does not occur the call returns no cursor.  (Positions are
\* counted from 1 here, from 0 in the source.)
C12_FirstMatch ==
    \A name \in LookupNames :
        CanLookup =>
            IF Occurs(symbols, name)
            THEN /\ ENABLED (GetSymbol(name) /\ \E c \in CursorIds :
                        /\ cursors[c] = NoCursor
                        /\ cursors'[c] # NoCursor
                        /\ cursors'[c].idx = LeastPosition(symbols, name))
                 /\ ~ENABLED (GetSymbol(name) /\ \E c \in CursorIds :
                        /\ cursors'[c] # cursors[c]
                        /\ cursors'[c].idx # LeastPosition(symbols, name))
                 /\ ~ENABLED (GetSymbol(name) /\ cursors' = cursors)
            ELSE ~ENABLED (GetSymbol(name) /\ cursors' # cursors)

\* get_symbol has returned the cursor of a name that occurs twice in the list,
\* at its first position and not at its later one.
C12_Witness ==
    /\ Len(symbols) = 3
    /\ symbols[1] = "a" /\ symbols[2] = "b" /\ symbols[3] = "a"
    /\ \E c \in CursorIds : cursors[c] # NoCursor /\ cursors[c].idx = 1

\* ------------------------------------------------------ what get_loaded pins

\* The Inners that were current at some instant since thread t's get_loaded began.
Window(t) == {installs[i] : i \in th[t].epoch..Len(installs)}

\* C13: under any interleaving with reloads, the Inner a get_loaded call pins in
\* the LoadedSymbol it returns was the handle's current Inner at some instant
\* between the start and the return of that call; it is not null, not an Inner
\* that was never installed or that was replaced before the call began, and not
\* torn: its module is loaded and every name of the list is resolved in it.
C13_PinnedWasCurrent ==
    [][\A t \in Threads :
          (th[t].pc = "p_chosen" /\ th'[t].pc = "idle") =>
             \E g \in GuardIds :
                /\ guards[g] = NoGuard
                /\ guards'[g] # NoGuard
                /\ guards'[g].lib # NULL
                /\ guards'[g].lib \in Window(t)
                /\ mods'[guards'[g].lib].state = "open"
                /\ ~Unresolved(guards'[g].lib)
                /\ Len(mods'[guards'[g].lib].pointers) = Len(symbols)]_vars

\* A get_loaded whose cursor cached an Inner replaced before the call began, and
\* which a reload overtook after it read the current Inner: it has chosen the
\* Inner it read, no longer current now, and not the cached one.
C13_Witness ==
    \E t \in Threads :
        /\ th[t].pc = "p_chosen"
        /\ th[t].my \notin Window(t)
        /\ th[t].lib \in Window(t)
        /\ th[t].lib # current

\* ------------------------------------------------ references and the close

\* Module m has been made into an Inner: installed at some time, or built by a
\* reload that has not stored it yet.
IsInner(m) ==
    \/ \E i \in 1..Len(installs) : installs[i] = m
    \/ \E t \in Threads : th[t].pc = "r_built" /\ th[t].lib = m

\* C14: in every reachable state, for every Inner, the strong count is exactly the
\* number of references held by the handle's slot, the cursor caches, the live
\* guards and the calls in progress, and the Inner's module has been freed if and
\* only if that number is zero: freed once when none is left (so at the step that
\* released the last one), never while one remains.
C14_ClosedIffUnreferenced ==
    \A m \in Mods :
        IsInner(m) =>
            /\ mods[m].strong = Refs(m)
            /\ (mods[m].state = "closed") <=> (Refs(m) = 0)
            /\ Refs(m) > 0 => (mods[m].state = "open" /\ mods[m].closes = 0)
            /\ Refs(m) = 0 => mods[m].closes = 1

\* After a reload, a cursor that is not used again is all that refers to the
\* replaced Inner, and its module is still loaded.
C14_Witness ==
    \E c \in CursorIds :
        /\ cursors[c] # NoCursor
        /\ hpc = "live"
        /\ cursors[c].cache # current
        /\ GuardsOn(cursors[c].cache) = {}
        /\ InPin = {} /\ InReload = {}
        /\ Refs(cursors[c].cache) = 1
        /\ mods[cursors[c].cache].state = "open"
        /\ mods[cursors[c].cache].closes = 0

\* ------------------------------------------- one owner of several cursors

\* Cursors the owning thread keeps at once when its cursors are examined.
OwnerCursors == 2

\* The thread that owns the cursors and calls get_loaded, and the thread that reloads.
Owner == MinOf(Threads)
Reloader == MaxOf(Threads)

\* The state before new(), with room for OwnerCursors cursors.
InitOwner ==
    /\ hpc = "init"
    /\ herr = NoErr
    /\ symbols \in SymLists
    /\ current = NULL
    /\ mods = [m \in Mods |-> FreshMod]
    /\ opens = 0
    /\ cursors = [c \in 1..OwnerCursors |-> NoCursor]
    /\ guards = [g \in GuardIds |-> NoGuard]
    /\ th = [t \in Threads |-> IdleThread]
    /\ installs = <<>>
    /\ p4 = "none"

\* The same operations, with every get_loaded made by the owner, one at a time,
\* while the other thread reloads.
NextOwner ==
    \/ NewLoad
    \/ NewBuild
    \/ DropHandle
    \/ ReloadLoad(Reloader)
    \/ ReloadBuild(Reloader)
    \/ ReloadSwap(Reloader)
    \/ ReloadDropOld(Reloader)
    \/ \E name \in LookupNames : GetSymbol(name)
    \/ \E c \in CursorIds : DropCursor(c)
    \/ \E c \in CursorIds : PinLoadMine(Owner, c)
    \/ PinLoadCurrent(Owner)
    \/ PinCompare(Owner)
    \/ PinDropOldCache(Owner)
    \/ PinFinish(Owner)
    \/ \E g \in GuardIds : DropGuard(g)

SpecOwner == InitOwner /\ [][NextOwner]_vars

\* C15: cursor cache protocol, for get_loaded calls that do not overlap each other.
\* A cursor that lives across a step keeps its index, and its cache changes only in
\* the comparing step of a get_loaded on that very cursor which found the cached
\* Inner different from the current one, and then to the Inner that call pins; a
\* call that found them identical leaves the cache as it was.  When a call returns,
\* its cursor's cache holds exactly the Inner of the returned LoadedSymbol.  No
\* reload step, guard drop, get_symbol or get_loaded on another cursor changes it.
C15_CacheProtocol ==
    [][/\ \A c \in CursorIds :
             (cursors[c] # NoCursor /\ cursors'[c] # NoCursor) =>
                /\ cursors'[c].idx = cursors[c].idx
                /\ cursors'[c].cache # cursors[c].cache =>
                      \E t \in Threads :
                         /\ th[t].pc = "p_both" /\ th'[t].pc = "p_stored"
                         /\ th[t].cur = c
                         /\ th[t].my # th[t].other
                         /\ cursors'[c].cache = th[t].other
                         /\ th'[t].lib = th[t].other
       /\ \A t \in Threads :
             (th[t].pc = "p_both" /\ th'[t].pc # "p_both") =>
                IF th[t].my = th[t].other
                THEN cursors'[th[t].cur].cache = cursors[th[t].cur].cache
                ELSE cursors'[th[t].cur].cache = th'[t].lib
       /\ \A t \in Threads :
             (th[t].pc = "p_chosen" /\ th'[t].pc = "idle") =>
                \E g \in GuardIds :
                   /\ guards[g] = NoGuard
                   /\ guards'[g] # NoGuard
                   /\ cursors'[th[t].cur].cache = guards'[g].lib
                   /\ th[t].my = th[t].other => cursors'[th[t].cur].cache = th[t].my]_vars

\* The owner's get_loaded found its cursor's cache replaced and has stored the
\* Inner it pins there, while its other cursor still caches the replaced Inner.
C15_Witness ==
    \E c, d \in CursorIds :
        /\ c # d
        /\ cursors[c] # NoCursor /\ cursors[d] # NoCursor
        /\ th[Owner].pc = "p_chosen"
        /\ th[Owner].cur = c
        /\ th[Owner].my # th[Owner].other
        /\ cursors[c].cache = th[Owner].lib
        /\ cursors[d].cache = th[Owner].my

\* --------------------------------------------------- order inside reload

\* Module m is loaded and holds one resolved address per name of the list, in order.
FullyResolved(m) ==
    /\ mods[m].state = "open"
    /\ Len(mods[m].pointers) = Len(symbols)
    /\ \A i \in 1..Len(symbols) :
          /\ mods[m].pointers[i] # NULL
          /\ mods[m].pointers[i] = GetPtr(mods, m, symbols[i])

\* C16: order inside a successful reload.  Up to its store the reload leaves the
\* current Inner in place and loaded.  At the store the new module, another
\* instance than the old one, is already loaded with every name resolved; the
\* store frees nothing, so right after it both the old and the new module are
\* loaded.  The reload then frees the old module in its last step if and only
\* if the reference taken out of the slot was the last one, and touches no other
\* module.
C16_ReloadOrder ==
    [][\A t \in Threads :
          /\ (\/ th[t].pc = "idle" /\ th'[t].pc = "r_loaded"
              \/ th[t].pc = "r_loaded" /\ th'[t].pc = "r_built") =>
                /\ current' = current
                /\ mods'[current].state = "open"
                /\ mods'[current].closes = 0
          /\ (th[t].pc = "r_built" /\ th'[t].pc = "r_swapped") =>
                /\ FullyResolved(th[t].lib)
                /\ th[t].lib # current
                /\ current' = th[t].lib
                /\ th'[t].old = current
                /\ mods' = mods
                /\ mods'[current].state = "open" /\ mods'[current].closes = 0
                /\ mods'[current'].state = "open" /\ mods'[current'].closes = 0
          /\ (th[t].pc = "r_swapped" /\ th'[t].pc = "idle") =>
                /\ mods[th[t].old].state = "open"
                /\ (mods'[th[t].old].state = "closed") <=> (Refs(th[t].old) = 1)
                /\ \A m \in Mods : m # th[t].old => mods'[m] = mods[m]]_vars

\* A reload has just stored: the old and the new module are both loaded, and the
\* reference it took out of the slot is the last one on the old Inner.
C16_Witness ==
    \E t \in Threads :
        /\ th[t].pc = "r_swapped"
        /\ mods[th[t].old].state = "open"
        /\ mods[current].state = "open"
        /\ th[t].old # current
        /\ Refs(th[t].old) = 1

\* ----------------------------------------------------- get_loaded is total

\* C17: get_loaded is total.  In every reachable state, after any reloads, every
\* cursor's index lies within the pointers of every Inner that is or can become
\* current (installed, or built by a reload about to store) and of the Inner a
\* call in progress has chosen; no call has panicked on its indexed read; and a
\* call that has chosen its Inner can only return, with a LoadedSymbol.
C17_PinTotal ==
    /\ \A c \in CursorIds :
          cursors[c] # NoCursor =>
             /\ cursors[c].idx \in 1..Len(symbols)
             /\ \A m \in Mods :
                   (IsInner(m) /\ mods[m].state = "open") =>
                      cursors[c].idx <= Len(mods[m].pointers)
    /\ \A t \in Threads :
          /\ th[t].err.kind # "IndexOutOfBounds"
          /\ th[t].pc = "p_chosen" =>
                /\ cursors[th[t].cur].idx \in 1..Len(mods[th[t].lib].pointers)
                /\ ENABLED (PinFinish(t) /\ th'[t].pc = "idle"
                              /\ \E g \in GuardIds : guards[g] = NoGuard /\ guards'[g] # NoGuard)
                /\ ~ENABLED (PinFinish(t) /\ th'[t].pc # "idle")

\* After two reloads, a get_loaded through a cursor at the last index of the list
\* has chosen the newest Inner and is about to read its pointer.
C17_Witness ==
    \E t \in Threads :
        /\ th[t].pc = "p_chosen"
        /\ Len(installs) = MaxOpens
        /\ th[t].lib = current
        /\ cursors[th[t].cur].idx = Len(mods[current].pointers)
        /\ cursors[th[t].cur].idx > 1

\* ------------------------------------------------- a superseded reload

\* Thread t's reload has stored its Inner and another reload has stored after it.
Superseded(t) ==
    /\ th[t].pc = "r_swapped"
    /\ \E i \in 1..(Len(installs) - 2) : installs[i] = th[t].old

\* C18: a reload whose Inner was built reports success in every interleaving.
\* From the moment the Inner is built, each step of the reload goes on without
\* error, stores the Inner, and returns to its caller without a panic; this is so
\* also when another reload has stored after it and replaced its Inner before it
\* returned, and no thread ever ends a reload with an error other than a failed
\* load or a missing symbol.
C18_BuiltReloadSucceeds ==
    [][\A t \in Threads :
          /\ (th[t].pc = "r_built" /\ th'[t].pc # "r_built") =>
                /\ th'[t].pc = "r_swapped"
                /\ th'[t].err = NoErr
                /\ current' = th[t].lib
          /\ (th[t].pc = "r_swapped" /\ th'[t].pc # "r_swapped") =>
                /\ th'[t].pc = "idle"
                /\ th'[t].err = NoErr
          /\ (th[t].pc \in ReloadPcs \cup {"idle"} /\ th'[t].pc = "panicked") =>
                /\ th[t].pc \in {"idle", "r_loaded"}
                /\ th'[t].err.kind \in LoadErrorKinds]_vars

\* A reload has stored its Inner, a later reload has already replaced it, the
\* first has not returned yet, and no get_loaded has run in between.
C18_Witness ==
    \E t \in Threads :
        /\ Superseded(t)
        /\ InPin = {}
        /\ LiveGuards = {}
        /\ ENABLED (ReloadDropOld(t) /\ th'[t].pc = "idle" /\ th'[t].err = NoErr)

====
